---- MODULE Spec2Model ----
(***************************************************************************)
(* Model of pylog.py: one UDP syslog listener thread per port of           *)
(* SYSLOG_PORTS, one HTTP server thread, and the main thread, sharing the  *)
(* list LOGS under the lock LOGS_LOCK.                                     *)
(*                                                                         *)
(* Text is modelled as sequences of numbers: a datagram payload is a       *)
(* sequence of byte values, a decoded message a sequence of code points,   *)
(* an address a sequence of its four octets, and a formatted timestamp a   *)
(* one-element sequence holding the whole second.                          *)
(***************************************************************************)
EXTENDS Integers, Sequences, FiniteSets

\* ---------------------------------------------------------------- bounds
\* Datagrams received by all listeners together during one run.
MaxDatagrams == 3
\* The cap of the in-memory store (2000 in the source), scaled down so that
\* a run of MaxDatagrams datagrams exceeds it.
MAX_LOGS == 2

\* ------------------------------------------------------- configuration
WEB_PORT == 8000
SYSLOG_PORTS == <<514, 1514>>
\* The listener ports: the source's privileged port and one of its
\* unprivileged ports.
Ports == {SYSLOG_PORTS[i] : i \in 1..Len(SYSLOG_PORTS)}

\* The datagrams the listeners receive, each a payload and the address of
\* its sender: an empty payload, whitespace only, a two-byte UTF-8
\* sequence (U+00A0) after a space, and text that is invalid UTF-8 (it
\* falls through to latin-1) before a newline.
Datagrams ==
    { [payload |-> <<>>,            addr |-> <<127, 0, 0, 1>>],
      [payload |-> <<32, 10>>,      addr |-> <<10, 0, 0, 7>>],
      [payload |-> <<32, 194, 160>>, addr |-> <<127, 0, 0, 1>>],
      [payload |-> <<65, 160, 10>>, addr |-> <<10, 0, 0, 7>>] }

\* Request paths, as the tokens of self.path.
Paths ==
    { <<"/">>, <<"/", "logs">>, <<"/", "?", "q=1">>,
      <<"/", "logs", "?", "q=1">>, <<"/", "nonexistent">> }

VARIABLES
    LOGS,        \* the shared list of log entries
    LOGS_LOCK,   \* 0 when free, else the port of the thread holding it
    lpc,         \* per listener: where its thread is
    request,     \* per listener: the datagram its running handle was given
    entry,       \* per listener: the log_entry built by the running handle
    appended,    \* history: every entry ever appended to LOGS, in order
    origin,      \* history, kept in the runs of SpecOrigin only: for each
                 \* entry of appended, the port of the listener that
                 \* appended it and the arrival number of its datagram
    wpc,         \* where the web server thread is
    resp,        \* the last HTTP response completed
    mainpc,      \* where the main thread is
    started,     \* number of listener threads the main thread has started
    printed,     \* the lines printed so far, each <<kind, port>>
    nDatagrams,  \* datagrams received so far
    now          \* the wall clock when it was last read, in whole seconds

vars == <<LOGS, LOGS_LOCK, lpc, request, entry, appended, origin, wpc, resp,
          mainpc, started, printed, nDatagrams, now>>

\* ------------------------------------------------------------- decoding
\* bytes.strip(): the ASCII whitespace bytes.
BytesWhitespace == {9, 10, 11, 12, 13, 32}

RECURSIVE LStrip(_, _)
LStrip(s, ws) ==
    IF s # <<>> /\ Head(s) \in ws THEN LStrip(Tail(s), ws) ELSE s

RECURSIVE RStrip(_, _)
RStrip(s, ws) ==
    IF s # <<>> /\ s[Len(s)] \in ws
    THEN RStrip(SubSeq(s, 1, Len(s) - 1), ws)
    ELSE s

\* A handle that decodes the payload as received (no .strip()).
BytesNoStrip(data) == data

BytesStrip(data) == RStrip(LStrip(data, BytesWhitespace), BytesWhitespace)

\* data.decode('utf-8') for bytes below 0xE0: one-byte and two-byte forms.
\* The result is <<ok, text>>; ok is FALSE where UnicodeDecodeError is raised.
RECURSIVE Utf8Decode(_)
Utf8Decode(data) ==
    IF data = <<>> THEN [ok |-> TRUE, text |-> <<>>]
    ELSE IF Head(data) < 128
    THEN LET r == Utf8Decode(Tail(data))
         IN  [ok |-> r.ok, text |-> <<Head(data)>> \o r.text]
    ELSE IF /\ Head(data) \in 194..223
            /\ Len(data) >= 2
            /\ data[2] \in 128..191
    THEN LET r == Utf8Decode(SubSeq(data, 3, Len(data)))
         IN  [ok |-> r.ok,
              text |-> <<(Head(data) - 192) * 64 + (data[2] - 128)>> \o r.text]
    ELSE [ok |-> FALSE, text |-> <<>>]

\* data.decode('latin-1'): every byte is the code point of the same value.
Latin1Decode(data) == [ok |-> TRUE, text |-> data]

\* data.decode('ascii'): fails on any byte above 127.
AsciiDecode(data) ==
    IF \A i \in 1..Len(data) : data[i] < 128
    THEN [ok |-> TRUE, text |-> data]
    ELSE [ok |-> FALSE, text |-> <<>>]

\* A decoding loop that tries latin-1 before utf-8.
DecodeMessageLatin1First(data) ==
    IF Latin1Decode(data).ok THEN Latin1Decode(data).text
    ELSE IF Utf8Decode(data).ok THEN Utf8Decode(data).text
    ELSE IF AsciiDecode(data).ok THEN AsciiDecode(data).text
    ELSE <<>>

\* The loop over ['utf-8', 'latin-1', 'ascii']: the first encoding that
\* decodes wins; message stays "" when none does.
DecodeMessage(data) ==
    IF Utf8Decode(data).ok THEN Utf8Decode(data).text
    ELSE IF Latin1Decode(data).ok THEN Latin1Decode(data).text
    ELSE IF AsciiDecode(data).ok THEN AsciiDecode(data).text
    ELSE <<>>

\* datetime.now().strftime('%Y-%m-%d %H:%M:%S')
Strftime(t) == <<t>>

NoEntry == [timestamp |-> <<>>, source |-> <<>>, message |-> <<>>]
NoDatagram == [payload |-> <<>>, addr |-> <<>>, n |-> 0]

\* The value of origin in a run that keeps no such history.
NoOrigin == <<[port |-> 0, n |-> 0]>>

\* origin, extended by one appended entry where the history is kept.
Originate(p, n) ==
    IF origin = NoOrigin THEN origin ELSE Append(origin, [port |-> p, n |-> n])

\* The arrival number of the next datagram (0 where no history is kept).
ArrivalNumber == IF origin = NoOrigin THEN 0 ELSE nDatagrams + 1

\* ------------------------------------------------------------------ JSON
Tok(t, k, v) == [t |-> t, k |-> k, v |-> v]

JsonObject(e) ==
    << Tok("{", "", <<>>),
       Tok("pair", "timestamp", e.timestamp), Tok(",", "", <<>>),
       Tok("pair", "source", e.source), Tok(",", "", <<>>),
       Tok("pair", "message", e.message),
       Tok("}", "", <<>>) >>

RECURSIVE JsonItems(_)
JsonItems(list) ==
    IF list = <<>> THEN <<>>
    ELSE IF Len(list) = 1 THEN JsonObject(list[1])
    ELSE JsonObject(list[1]) \o <<Tok(",", "", <<>>)>> \o JsonItems(Tail(list))

\* A json.dumps that is given the list newest first.
JsonDumpsReversed(list) ==
    LET rev == [i \in 1..Len(list) |-> list[Len(list) + 1 - i]]
    IN  <<Tok("[", "", <<>>)>> \o JsonItems(rev) \o <<Tok("]", "", <<>>)>>

\* json.dumps(LOGS)
JsonDumps(list) == <<Tok("[", "", <<>>)>> \o JsonItems(list) \o <<Tok("]", "", <<>>)>>

HTML_CONTENT == <<Tok("html", "", <<>>)>>

NoResponse == [path |-> <<>>, status |-> 0, ctype |-> "", body |-> <<>>, at |-> 0]

\* ------------------------------------------------------------------ Init
Init ==
    /\ LOGS = <<>>
    /\ LOGS_LOCK = 0
    /\ lpc = [p \in Ports |-> "unstarted"]
    /\ request = [p \in Ports |-> NoDatagram]
    /\ entry = [p \in Ports |-> NoEntry]
    /\ appended = <<>>
    /\ origin = NoOrigin
    /\ wpc = "unstarted"
    /\ resp = NoResponse
    /\ mainpc = "start_listeners"
    /\ started = 0
    /\ printed = {}
    /\ nDatagrams = 0
    /\ now = 0

\* print(...): the line, and the port it names (0 when it names none).
Emit(line, port) == printed \cup {<<line, port>>}

\* Daemon threads run only while the process lives.
Running == mainpc # "exited"

\* ----------------------------------------------------------- main thread
\* for port in SYSLOG_PORTS: thread.start()
MainStartListener ==
    /\ mainpc = "start_listeners"
    /\ started < Len(SYSLOG_PORTS)
    /\ started' = started + 1
    /\ lpc' = [lpc EXCEPT ![SYSLOG_PORTS[started + 1]] = "bind"]
    /\ UNCHANGED <<LOGS, LOGS_LOCK, request, entry, appended, origin, wpc,
                   resp, mainpc, printed, nDatagrams, now>>

\* web_thread.start(); print("All servers started..."); then join
MainStartWeb ==
    /\ mainpc = "start_listeners"
    /\ started = Len(SYSLOG_PORTS)
    /\ wpc' = "bind"
    /\ printed' = Emit("all_started", 0)
    /\ mainpc' = "join"
    /\ UNCHANGED <<LOGS, LOGS_LOCK, lpc, request, entry, appended, origin,
                   resp, started, nDatagrams, now>>

\* A main thread that does not wait for the web thread: it falls off the
\* end of the script once the threads are started.
MainJoinNoWait ==
    /\ mainpc = "join"
    /\ mainpc' = "exited"
    /\ UNCHANGED <<LOGS, LOGS_LOCK, lpc, request, entry, appended, origin,
                   wpc, resp, started, printed, nDatagrams, now>>

\* web_thread.join() returns once the web thread has ended; the main thread
\* then falls off the end of the script and the process exits.
MainJoin ==
    /\ mainpc = "join"
    /\ wpc = "ended"
    /\ mainpc' = "exited"
    /\ UNCHANGED <<LOGS, LOGS_LOCK, lpc, request, entry, appended, origin,
                   wpc, resp, started, printed, nDatagrams, now>>

\* Ctrl+C raises KeyboardInterrupt in the main thread. Inside the try
\* around web_thread.join() it is caught: print("Shutting down
\* servers..."); while the threads are still being started it is not, and
\* the interpreter prints the traceback. Either way the main thread ends
\* and the process exits.
MainInterrupt ==
    /\ mainpc \in {"start_listeners", "join"}
    /\ printed' = Emit(IF mainpc = "join" THEN "shutdown" ELSE "traceback", 0)
    /\ mainpc' = "exited"
    /\ UNCHANGED <<LOGS, LOGS_LOCK, lpc, request, entry, appended, origin,
                   wpc, resp, started, nDatagrams, now>>

\* ------------------------------------------------------ listener threads
\* The outcomes of socketserver.UDPServer((SYSLOG_HOST, p), ...): the bind
\* succeeds, or raises PermissionError (a privileged port), or raises
\* another exception (the port is in use).
BindOutcomes(p) ==
    {"ok", "other"} \cup (IF p < 1024 THEN {"permission"} ELSE {})

\* A start_server_for_port without its except clauses for the process: a
\* failed bind is reported and then ends the whole process.
StartServerForPortFatal(p) ==
    /\ Running
    /\ lpc[p] = "bind"
    /\ \E r \in BindOutcomes(p) :
          IF r = "ok"
          THEN /\ lpc' = [lpc EXCEPT ![p] = "idle"]
               /\ printed' = Emit("listening", p)
               /\ UNCHANGED mainpc
          ELSE /\ lpc' = [lpc EXCEPT ![p] = "ended"]
               /\ printed' = Emit("bind_failed", p)
               /\ mainpc' = "exited"
    /\ UNCHANGED <<LOGS, LOGS_LOCK, request, entry, appended, origin, wpc, resp,
                   started, nDatagrams, now>>

\* What start_server_for_port does with the outcome of the bind.
AfterBind(r) ==
    IF r = "ok" THEN [pc |-> "idle", line |-> "listening"]
    ELSE IF r = "permission" THEN [pc |-> "ended", line |-> "permission"]
    ELSE [pc |-> "ended", line |-> "bind_failed"]

StartServerForPort(p) ==
    /\ Running
    /\ lpc[p] = "bind"
    /\ \E r \in BindOutcomes(p) :
          /\ lpc' = [lpc EXCEPT ![p] = AfterBind(r).pc]
          /\ printed' = Emit(AfterBind(r).line, p)
    /\ UNCHANGED <<LOGS, LOGS_LOCK, request, entry, appended, origin, wpc,
                   resp, mainpc, started, nDatagrams, now>>

\* The log_entry handle builds for a stripped, decoded datagram.
LogEntry(message, addr, t) ==
    [timestamp |-> Strftime(t), source |-> addr, message |-> message]

\* serve_forever receives one datagram and calls handle with it:
\* self.request[0] is the payload, self.client_address[0] the sender.
ServeDatagram(p) ==
    /\ Running
    /\ lpc[p] = "idle"
    /\ nDatagrams < MaxDatagrams
    /\ nDatagrams' = nDatagrams + 1
    /\ \E d \in Datagrams :
          request' = [request EXCEPT ![p] =
                         [payload |-> d.payload, addr |-> d.addr,
                          n |-> ArrivalNumber]]
    /\ lpc' = [lpc EXCEPT ![p] = "handle"]
    /\ UNCHANGED <<LOGS, LOGS_LOCK, entry, appended, origin, wpc, resp, mainpc,
                   started, printed, now>>

\* datetime.now(): the wall clock has moved on by no whole second, or by
\* one, since it was last read.
ClockReadings == {now, now + 1}

\* handle, up to the with statement: strip, decode, then drop an empty
\* message (and return) or build the entry.
HandleDecode(p) ==
    /\ Running
    /\ lpc[p] = "handle"
    /\ LET message == DecodeMessage(BytesStrip(request[p].payload))
       IN  IF message = <<>>
           THEN /\ printed' = Emit("no_decode", 0)
                /\ lpc' = [lpc EXCEPT ![p] = "idle"]
                /\ request' = [request EXCEPT ![p] = NoDatagram]
                /\ UNCHANGED <<entry, now>>
           ELSE /\ \E t \in ClockReadings :
                     /\ now' = t
                     /\ entry' = [entry EXCEPT ![p] =
                                     LogEntry(message, request[p].addr, t)]
                /\ lpc' = [lpc EXCEPT ![p] = "built"]
                /\ UNCHANGED <<printed, request>>
    /\ UNCHANGED <<LOGS, LOGS_LOCK, appended, origin, wpc, resp, mainpc, started,
                   nDatagrams>>

\* A handle that enters its critical section without waiting for the lock
\* to be free.
HandleAcquireNoWait(p) ==
    /\ Running
    /\ lpc[p] = "built"
    /\ LOGS_LOCK' = p
    /\ lpc' = [lpc EXCEPT ![p] = "append"]
    /\ UNCHANGED <<LOGS, request, entry, appended, origin, wpc, resp, mainpc, started,
                   printed, nDatagrams, now>>

\* with LOGS_LOCK: (entering)
HandleAcquire(p) ==
    /\ Running
    /\ lpc[p] = "built"
    /\ LOGS_LOCK = 0
    /\ LOGS_LOCK' = p
    /\ lpc' = [lpc EXCEPT ![p] = "append"]
    /\ UNCHANGED <<LOGS, request, entry, appended, origin, wpc, resp, mainpc, started,
                   printed, nDatagrams, now>>

\* An append that puts the new record at the front of the list
\* (LOGS.insert(0, log_entry)).
HandleAppendFront(p) ==
    /\ Running
    /\ lpc[p] = "append"
    /\ LOGS' = <<entry[p]>> \o LOGS
    /\ appended' = Append(appended, entry[p])
    /\ origin' = Originate(p, request[p].n)
    /\ lpc' = [lpc EXCEPT ![p] = "trim"]
    /\ UNCHANGED <<LOGS_LOCK, request, entry, wpc, resp, mainpc, started,
                   printed, nDatagrams, now>>

\* LOGS.append(log_entry)
HandleAppend(p) ==
    /\ Running
    /\ lpc[p] = "append"
    /\ LOGS' = Append(LOGS, entry[p])
    /\ appended' = Append(appended, entry[p])
    /\ origin' = Originate(p, request[p].n)
    /\ lpc' = [lpc EXCEPT ![p] = "trim"]
    /\ UNCHANGED <<LOGS_LOCK, request, entry, wpc, resp, mainpc, started,
                   printed, nDatagrams, now>>

\* A trim that deletes the newest record instead of the oldest.
TrimLogsNewest(logs) ==
    IF Len(logs) > MAX_LOGS THEN SubSeq(logs, 1, Len(logs) - 1) ELSE logs

\* A trim that deletes the second-oldest record (del LOGS[1]).
TrimLogsSecond(logs) ==
    IF Len(logs) > MAX_LOGS
    THEN <<logs[1]>> \o SubSeq(logs, 3, Len(logs))
    ELSE logs

\* A trim that already evicts when the list has reached the cap
\* (len(LOGS) >= MAX_LOGS).
TrimLogsAtCap(logs) == IF Len(logs) >= MAX_LOGS THEN Tail(logs) ELSE logs

\* if len(LOGS) > MAX_LOGS: del LOGS[0]
TrimLogs(logs) == IF Len(logs) > MAX_LOGS THEN Tail(logs) ELSE logs

\* The trim, then leaving the with statement and returning from handle.
HandleTrim(p) ==
    /\ Running
    /\ lpc[p] = "trim"
    /\ LOGS' = TrimLogs(LOGS)
    /\ LOGS_LOCK' = 0
    /\ lpc' = [lpc EXCEPT ![p] = "idle"]
    /\ request' = [request EXCEPT ![p] = NoDatagram]
    /\ entry' = [entry EXCEPT ![p] = NoEntry]
    /\ UNCHANGED <<appended, origin, wpc, resp, mainpc, started, printed, nDatagrams, now>>

\* A handle without its except clause: the exception leaves handle and ends
\* the listener thread.
HandleExceptEndsThread(p) ==
    /\ Running
    /\ lpc[p] = "append"
    /\ LOGS_LOCK' = 0
    /\ lpc' = [lpc EXCEPT ![p] = "ended"]
    /\ request' = [request EXCEPT ![p] = NoDatagram]
    /\ entry' = [entry EXCEPT ![p] = NoEntry]
    /\ UNCHANGED <<LOGS, appended, origin, wpc, resp, mainpc, started, printed,
                   nDatagrams, now>>

\* An exception raised inside the with statement (MemoryError from
\* LOGS.append): the with statement releases the lock and
\* "except Exception" prints the error; handle returns.
HandleExcept(p) ==
    /\ Running
    /\ lpc[p] = "append"
    /\ LOGS_LOCK' = 0
    /\ printed' = Emit("handler_error", 0)
    /\ lpc' = [lpc EXCEPT ![p] = "idle"]
    /\ request' = [request EXCEPT ![p] = NoDatagram]
    /\ entry' = [entry EXCEPT ![p] = NoEntry]
    /\ UNCHANGED <<LOGS, appended, origin, wpc, resp, mainpc, started, nDatagrams, now>>

\* ------------------------------------------------------------ web thread
\* HTTPServer((WEB_HOST, WEB_PORT), WebUIHandler) binds or raises; a raise
\* is caught by run_web_server, which prints and returns.
RunWebServer ==
    /\ Running
    /\ wpc = "bind"
    /\ \E ok \in BOOLEAN :
          IF ok
          THEN wpc' = "idle" /\ printed' = Emit("web_up", WEB_PORT)
          ELSE wpc' = "ended" /\ printed' = Emit("web_failed", 0)
    /\ UNCHANGED <<LOGS, LOGS_LOCK, lpc, request, entry, appended, origin,
                   resp, mainpc, started, nDatagrams, now>>

\* A routing whose last branch serves the page instead of the 404.
RouteNoFallback(path) ==
    IF path = <<"/">> THEN "page"
    ELSE IF path = <<"/", "logs">> THEN "logs"
    ELSE "page"

\* The branch do_GET takes for self.path.
Route(path) ==
    IF path = <<"/">> THEN "page"
    ELSE IF path = <<"/", "logs">> THEN "logs"
    ELSE "not_found"

\* do_GET for '/' and for the fallback; for '/logs', up to the with
\* statement (status line and headers are sent before the lock is taken).
DoGet ==
    /\ Running
    /\ wpc = "idle"
    /\ \E path \in Paths :
          CASE Route(path) = "page" ->
                 /\ resp' = [path |-> path, status |-> 200, ctype |-> "text/html",
                             body |-> HTML_CONTENT, at |-> 0]
                 /\ wpc' = wpc
            [] Route(path) = "logs" ->
                 /\ wpc' = "logs"
                 /\ resp' = resp
            [] OTHER ->
                 /\ resp' = [path |-> path, status |-> 404, ctype |-> "",
                             body |-> <<>>, at |-> 0]
                 /\ wpc' = wpc
    /\ UNCHANGED <<LOGS, LOGS_LOCK, lpc, request, entry, appended, origin,
                   mainpc, started, printed, nDatagrams, now>>

\* A do_GET that reads LOGS without waiting for the lock to be free.
DoGetAcquireNoWait ==
    /\ Running
    /\ wpc = "logs"
    /\ LOGS_LOCK' = WEB_PORT
    /\ wpc' = "write"
    /\ UNCHANGED <<LOGS, lpc, request, entry, appended, origin, resp, mainpc, started,
                   printed, nDatagrams, now>>

\* with LOGS_LOCK: (entering)
DoGetAcquire ==
    /\ Running
    /\ wpc = "logs"
    /\ LOGS_LOCK = 0
    /\ LOGS_LOCK' = WEB_PORT
    /\ wpc' = "write"
    /\ UNCHANGED <<LOGS, lpc, request, entry, appended, origin, resp, mainpc,
                   started, printed, nDatagrams, now>>

\* A do_GET that empties the store once it has written it out.
DoGetWriteDrains ==
    /\ Running
    /\ wpc = "write"
    /\ resp' = [path |-> <<"/", "logs">>, status |-> 200,
                ctype |-> "application/json", body |-> JsonDumps(LOGS),
                at |-> Len(appended)]
    /\ LOGS' = <<>>
    /\ LOGS_LOCK' = 0
    /\ wpc' = "idle"
    /\ UNCHANGED <<lpc, request, entry, appended, origin, mainpc, started, printed,
                   nDatagrams, now>>

\* self.wfile.write(json.dumps(LOGS).encode('utf-8')), then leaving the
\* with statement.
DoGetWrite ==
    /\ Running
    /\ wpc = "write"
    /\ resp' = [path |-> <<"/", "logs">>, status |-> 200,
                ctype |-> "application/json", body |-> JsonDumps(LOGS),
                at |-> Len(appended)]
    /\ LOGS_LOCK' = 0
    /\ wpc' = "idle"
    /\ UNCHANGED <<LOGS, lpc, request, entry, appended, origin, mainpc,
                   started, printed, nDatagrams, now>>

\* A do_GET that takes the lock with acquire() and release() and no
\* try/finally: a raising write leaves do_GET with the lock still held.
DoGetWriteFailsKeepsLock ==
    /\ Running
    /\ wpc = "write"
    /\ wpc' = "idle"
    /\ UNCHANGED <<LOGS, LOGS_LOCK, lpc, request, entry, appended, origin, resp,
                   mainpc, started, printed, nDatagrams, now>>

\* The write raises (the client has gone): the with statement releases the
\* lock, the exception leaves do_GET and the server's request loop reports
\* it and goes on to the next request.
DoGetWriteFails ==
    /\ Running
    /\ wpc = "write"
    /\ LOGS_LOCK' = 0
    /\ wpc' = "idle"
    /\ UNCHANGED <<LOGS, lpc, request, entry, appended, origin, resp, mainpc,
                   started, printed, nDatagrams, now>>

Next ==
    \/ MainStartListener
    \/ MainStartWeb
    \/ MainJoin
    \/ MainInterrupt
    \/ \E p \in Ports : StartServerForPort(p)
    \/ \E p \in Ports : ServeDatagram(p)
    \/ \E p \in Ports : HandleDecode(p)
    \/ \E p \in Ports : HandleAcquire(p)
    \/ \E p \in Ports : HandleAppend(p)
    \/ \E p \in Ports : HandleTrim(p)
    \/ \E p \in Ports : HandleExcept(p)
    \/ RunWebServer
    \/ DoGet
    \/ DoGetAcquire
    \/ DoGetWrite
    \/ DoGetWriteFails

Spec == Init /\ [][Next]_vars

\* The same program, in runs that keep the history origin.
InitOrigin ==
    /\ LOGS = <<>>
    /\ LOGS_LOCK = 0
    /\ lpc = [p \in Ports |-> "unstarted"]
    /\ request = [p \in Ports |-> NoDatagram]
    /\ entry = [p \in Ports |-> NoEntry]
    /\ appended = <<>>
    /\ origin = <<>>
    /\ wpc = "unstarted"
    /\ resp = NoResponse
    /\ mainpc = "start_listeners"
    /\ started = 0
    /\ printed = {}
    /\ nDatagrams = 0
    /\ now = 0

SpecOrigin == InitOrigin /\ [][Next]_vars

\* The scheduling of the threads: a thread that can take its next step
\* takes it (the main thread's start-up and join, a listener's bind and
\* the steps of its handle, the web server's bind and the write of a /logs
\* body), and a thread that waits for LOGS_LOCK gets it if it is free again
\* and again. Nothing makes a datagram or a request arrive, or Ctrl+C be
\* pressed.
Fairness ==
    /\ WF_vars(MainStartListener)
    /\ WF_vars(MainStartWeb)
    /\ WF_vars(MainJoin)
    /\ WF_vars(RunWebServer)
    /\ WF_vars(DoGetWrite)
    /\ \A p \in Ports :
          /\ WF_vars(StartServerForPort(p))
          /\ WF_vars(HandleDecode(p))
          /\ SF_vars(HandleAcquire(p))
          /\ WF_vars(HandleAppend(p))
          /\ WF_vars(HandleTrim(p))

FairSpec == Init /\ [][Next]_vars /\ Fairness

\* =================================================================
\* Properties
\* =================================================================

\* response.json() in the viewer's fetchLogs: the array of the objects of a
\* body written by json.dumps, each object read back by its keys.
JsonValue(body, from, key) ==
    LET i == CHOOSE j \in from..(from + 6) :
                 body[j].t = "pair" /\ body[j].k = key
    IN  body[i].v

JsonLoads(body) ==
    [n \in 1..((Len(body) - 1) \div 8) |->
        [timestamp |-> JsonValue(body, 2 + 8 * (n - 1), "timestamp"),
         source    |-> JsonValue(body, 2 + 8 * (n - 1), "source"),
         message   |-> JsonValue(body, 2 + 8 * (n - 1), "message")]]

\* The last n elements of a sequence (all of it when it is shorter).
LastN(seq, n) ==
    IF Len(seq) > n THEN SubSeq(seq, Len(seq) - n + 1, Len(seq)) ELSE seq

\* The store as it stood once the first n appends had completed.
StoreAfter(n) == LastN(SubSeq(appended, 1, n), MAX_LOGS)

\* No listener is between its append and its trim.
NoTrimPending == \A p \in Ports : lpc[p] # "trim"

IsLogsResponse == resp.path = <<"/", "logs">>

\* C1: once more than MAX_LOGS records have been appended (and the last
\* append has finished its trim), the store holds exactly MAX_LOGS records:
\* the MAX_LOGS most recently appended ones, in the order of their appends.
C1_KeepsNewest ==
    (NoTrimPending /\ Len(appended) > MAX_LOGS) =>
        /\ Len(LOGS) = MAX_LOGS
        /\ \A i \in 1..MAX_LOGS :
              LOGS[i] = appended[Len(appended) - MAX_LOGS + i]

\* Three appends A, B, C with cap 2 (one more append than the cap) have
\* left exactly [B, C], and A differs from what is left.
C1_Witness ==
    /\ NoTrimPending
    /\ Len(appended) = MAX_LOGS + 1
    /\ LOGS = Tail(appended)
    /\ \A i \in 1..Len(LOGS) : LOGS[i] # appended[1]

\* C4: a completed GET /logs response has status 200, Content-Type
\* application/json, and a body that parses to exactly the store's contents
\* at the time of the write, in insertion order (the empty array for the
\* empty store).
C4_LogsResponse ==
    IsLogsResponse =>
        /\ resp.status = 200
        /\ resp.ctype = "application/json"
        /\ JsonLoads(resp.body) = StoreAfter(resp.at)
        /\ (resp.at = 0 => resp.body = <<Tok("[", "", <<>>), Tok("]", "", <<>>)>>)

\* A /logs response carrying two different records of the store.
C4_Witness ==
    /\ IsLogsResponse
    /\ Len(JsonLoads(resp.body)) = 2
    /\ JsonLoads(resp.body)[1] # JsonLoads(resp.body)[2]
    /\ JsonLoads(resp.body) = LOGS

\* ----------------------------------------------------------------- C2
\* A reference for the text encodings, independent of the decoders above.
\* UTF-8 of a text whose code points are below 0x800.
RECURSIVE Utf8Encode(_)
Utf8Encode(text) ==
    IF text = <<>> THEN <<>>
    ELSE (IF Head(text) < 128
          THEN <<Head(text)>>
          ELSE <<192 + (Head(text) \div 64), 128 + (Head(text) % 64)>>)
         \o Utf8Encode(Tail(text))

\* data is well-formed UTF-8 (bytes below 0xE0): it splits into single
\* bytes below 0x80 and lead bytes 0xC2..0xDF each followed by one
\* continuation byte 0x80..0xBF.
ValidUtf8(data) ==
    \E f \in [1..Len(data) -> {"single", "lead", "cont"}] :
        \A i \in 1..Len(data) :
           /\ f[i] = "single" => data[i] < 128
           /\ f[i] = "lead" =>
                 data[i] \in 194..223 /\ i < Len(data) /\ f[i + 1] = "cont"
           /\ f[i] = "cont" =>
                 data[i] \in 128..191 /\ i > 1 /\ f[i - 1] = "lead"

\* text is what the first supported encoding that accepts data decodes it
\* to: UTF-8 if data is well-formed UTF-8, else latin-1 (which accepts any
\* bytes, so ascii is never reached).
IsDecodingOf(text, data) ==
    IF ValidUtf8(data)
    THEN Utf8Encode(text) = data /\ \A i \in 1..Len(text) : text[i] < 2048
    ELSE text = data

\* Some supported encoding decodes data.
Decodable(data) == ValidUtf8(data) \/ Latin1Decode(data).ok

InHandle(p) == lpc[p] \in {"built", "append", "trim"}

\* The records of a /logs body.
Snapshot == JsonLoads(resp.body)

\* C2 as stated: every handle call that returns without raising, for a
\* payload some supported encoding decodes, has stored a record whose
\* message is the trimmed decoded text and whose source is the sender; and
\* the first /logs response after a record was appended contains it.
C2_EveryDecodableStored ==
    [][ /\ \A p \in Ports :
             (/\ lpc[p] \in {"handle", "trim"}
              /\ lpc'[p] = "idle"
              /\ Decodable(request[p].payload)) =>
                 /\ LOGS' # <<>>
                 /\ IsDecodingOf(LOGS'[Len(LOGS')].message,
                                 BytesStrip(request[p].payload))
                 /\ LOGS'[Len(LOGS')].source = request[p].addr
        /\ (/\ resp' # resp
            /\ resp'.path = <<"/", "logs">>
            /\ resp.path \in {<<>>, <<"/", "logs">>}) =>
               \A i \in (resp.at + 1)..resp'.at :
                  \E j \in 1..Len(JsonLoads(resp'.body)) :
                     JsonLoads(resp'.body)[j] = appended[i]
      ]_vars

\* C2 (amended): a datagram is dropped exactly when its payload is empty
\* once its leading and trailing ASCII whitespace bytes are stripped;
\* otherwise handle builds a record whose message is non-empty and is the
\* decoding of the stripped payload under the first supported encoding that
\* accepts it, and whose source is the sender's address; its append makes
\* that record the newest element of the store, where it still is when
\* handle returns; and every /logs snapshot contains each record that had
\* been appended by then with fewer than MAX_LOGS appends after it.
C2_StoredUnlessEmpty ==
    /\ [](\A p \in Ports : InHandle(p) =>
            /\ entry[p].message # <<>>
            /\ IsDecodingOf(entry[p].message, BytesStrip(request[p].payload))
            /\ entry[p].source = request[p].addr)
    /\ [](\A p \in Ports : lpc[p] = "trim" =>
            /\ LOGS[Len(LOGS)] = entry[p]
            /\ appended[Len(appended)] = entry[p])
    /\ [](IsLogsResponse =>
            \A i \in 1..resp.at :
               i > resp.at - MAX_LOGS =>
                  /\ Len(Snapshot) > resp.at - i
                  /\ Snapshot[Len(Snapshot) - (resp.at - i)] = appended[i])
    /\ [][\A p \in Ports :
            /\ (lpc[p] = "handle" /\ lpc'[p] # "handle") =>
                  /\ lpc'[p] = "built" <=> BytesStrip(request[p].payload) # <<>>
                  /\ lpc'[p] = "idle" <=> BytesStrip(request[p].payload) = <<>>
                  /\ LOGS' = LOGS
            /\ (lpc[p] = "trim" /\ lpc'[p] = "idle") =>
                  /\ LOGS' # <<>>
                  /\ LOGS'[Len(LOGS')] = entry[p]
       ]_vars

\* A /logs response, taken right after the append of the record of the
\* datagram <<65, 160, 10>> from 10.0.0.7 (invalid UTF-8: latin-1 decodes
\* the stripped bytes), carries that record as its newest.
C2_Witness ==
    /\ IsLogsResponse
    /\ resp.at = Len(appended)
    /\ Snapshot # <<>>
    /\ Snapshot[Len(Snapshot)].message = <<65, 160>>
    /\ Snapshot[Len(Snapshot)].source = <<10, 0, 0, 7>>
    /\ \E i \in 1..Len(appended) : appended[i].message = <<160>>

\* ----------------------------------------------------------------- C5
\* self.path without its query string.
RECURSIVE PathOnly(_)
PathOnly(path) ==
    IF path = <<>> \/ Head(path) = "?" THEN <<>>
    ELSE <<Head(path)>> \o PathOnly(Tail(path))

\* C5: a GET for the viewer page answers 200 with the fixed HTML document
\* whether or not a query string follows the root path.
C5_PageIgnoresQuery ==
    PathOnly(resp.path) = <<"/">> =>
        /\ resp.status = 200
        /\ resp.ctype = "text/html"
        /\ resp.body = HTML_CONTENT

\* ----------------------------------------------------------------- C6
\* C6: a GET for any path other than '/' and '/logs' answers 404 with an
\* empty body.
C6_NotFound ==
    (resp # NoResponse /\ resp.path \notin {<<"/">>, <<"/", "logs">>}) =>
        /\ resp.status = 404
        /\ resp.body = <<>>

\* GET /nonexistent has been answered.
C6_Witness ==
    /\ resp.path = <<"/", "nonexistent">>
    /\ resp.status = 404
    /\ resp.body = <<>>

\* ----------------------------------------------------------------- C7
\* The threads inside a critical section of LOGS_LOCK.
InCritical ==
    {p \in Ports : lpc[p] \in {"append", "trim"}}
        \cup (IF wpc = "write" THEN {WEB_PORT} ELSE {})

\* C7: whenever the lock is free the store holds at most MAX_LOGS records,
\* and no /logs response holds more; the store exceeds the cap (by one)
\* only between a listener's append and its trim, during which that
\* listener holds the lock and no other thread is inside a critical section.
C7_CapUnderLock ==
    /\ LOGS_LOCK = 0 => Len(LOGS) <= MAX_LOGS
    /\ IsLogsResponse => Len(Snapshot) <= MAX_LOGS
    /\ Len(LOGS) <= MAX_LOGS + 1
    /\ Len(LOGS) > MAX_LOGS => \E p \in Ports : lpc[p] = "trim"
    /\ InCritical = (IF LOGS_LOCK = 0 THEN {} ELSE {LOGS_LOCK})

\* A listener stands between its append and its trim with the store one
\* over the cap, while a /logs request waits for the lock.
C7_Witness ==
    /\ \E p \in Ports : lpc[p] = "trim" /\ LOGS_LOCK = p
    /\ Len(LOGS) = MAX_LOGS + 1
    /\ wpc = "logs"

\* ----------------------------------------------------------------- C8
BindFailureReported(p) ==
    <<"permission", p>> \in printed \/ <<"bind_failed", p>> \in printed

\* C8: no datagram ends a listener: a listener thread has ended only if its
\* bind failed; every handle call ends with the listener back in its
\* receive loop, holding neither the lock nor a half-built record, whether
\* it stored the datagram, dropped it or caught an exception.
C8_HandleReturns ==
    /\ [](\A p \in Ports :
            /\ lpc[p] = "ended" => BindFailureReported(p)
            /\ lpc[p] \in {"idle", "ended"} =>
                  /\ LOGS_LOCK # p
                  /\ entry[p] = NoEntry
                  /\ request[p] = NoDatagram)
    /\ [][\A p \in Ports :
            (lpc[p] \in {"handle", "built", "append", "trim"}
                /\ lpc'[p] # lpc[p]) =>
               lpc'[p] \in {"idle", "built", "append", "trim"}
       ]_vars

\* With the other listener never bound, the listener on 1514 has dropped a
\* datagram and caught an exception, and is now storing a later datagram.
C8_Witness ==
    /\ lpc[514] = "ended"
    /\ <<"no_decode", 0>> \in printed
    /\ <<"handler_error", 0>> \in printed
    /\ lpc[1514] = "trim"
    /\ appended = <<entry[1514]>>
    /\ nDatagrams = 3

\* ----------------------------------------------------------------- C9
\* C9: a failed bind is reported and ends only its own listener thread:
\* the step changes nothing else (no other thread's position, not the
\* store, not the lock, not the process), and a listener ends for no other
\* reason.
C9_BindFailureIsLocal ==
    /\ [](\A p \in Ports : lpc[p] = "ended" => BindFailureReported(p))
    /\ [][\A p \in Ports :
            (lpc[p] = "bind" /\ lpc'[p] = "ended") =>
               /\ BindFailureReported(p)'
               /\ \A q \in Ports \ {p} : lpc'[q] = lpc[q]
               /\ UNCHANGED <<LOGS, LOGS_LOCK, request, entry, appended, origin, wpc,
                              resp, mainpc, started, nDatagrams, now>>
       ]_vars

\* Port 514 was refused (PermissionError), and yet the listener on 1514 has
\* stored a record and the web server has served it.
C9_Witness ==
    /\ lpc[514] = "ended"
    /\ <<"permission", 514>> \in printed
    /\ lpc[1514] = "idle"
    /\ <<"listening", 1514>> \in printed
    /\ LOGS # <<>>
    /\ IsLogsResponse
    /\ Snapshot = LOGS
    /\ wpc = "idle"

\* ---------------------------------------------------------------- C10
\* C10: no step of the web thread changes the store; the store changes
\* only in a step of a listener's handle (its append or its trim).
C10_GetIsReadOnly ==
    [][ /\ (wpc' # wpc \/ resp' # resp) => LOGS' = LOGS
        /\ LOGS' # LOGS =>
              \E p \in Ports :
                 lpc[p] \in {"append", "trim"} /\ lpc'[p] # lpc[p]
      ]_vars

\* Both records of a full store have been served by GET /logs, and the
\* store still holds them.
C10_Witness ==
    /\ IsLogsResponse
    /\ Len(LOGS) = MAX_LOGS
    /\ Snapshot = LOGS
    /\ resp.at = Len(appended)
    /\ wpc = "idle"

\* ---------------------------------------------------------------- C11
\* The positions in the append history of the records the store holds: the
\* store is the end of the history.
StoreFrom == Len(appended) - Len(LOGS) + 1

\* The positions in the append history of the records of the last /logs body.
SnapshotFrom == resp.at - Len(Snapshot) + 1

\* C11: every appended record has one origin; two records appended by the
\* same listener stand in the append history in the order their datagrams
\* arrived; and the store and every /logs snapshot hold a stretch of that
\* history in its order, so the earlier datagram's record precedes the
\* later one's wherever both are present.
C11_ArrivalOrder ==
    /\ Len(origin) = Len(appended)
    /\ \A i, j \in 1..Len(origin) :
          (origin[i].port = origin[j].port /\ origin[i].n < origin[j].n) => i < j
    /\ Len(LOGS) <= Len(appended)
    /\ \A k \in 1..Len(LOGS) : LOGS[k] = appended[StoreFrom + k - 1]
    /\ IsLogsResponse =>
          /\ Len(Snapshot) <= resp.at
          /\ \A k \in 1..Len(Snapshot) : Snapshot[k] = appended[SnapshotFrom + k - 1]

\* The listener on 514 received the first and the third datagram, the one
\* on 1514 the second, which it appended first; the store and a /logs
\* snapshot hold the two records of 514, the first datagram's before the
\* third's.
C11_Witness ==
    /\ origin = << [port |-> 1514, n |-> 2], [port |-> 514, n |-> 1],
                   [port |-> 514, n |-> 3] >>
    /\ NoTrimPending
    /\ LOGS = SubSeq(appended, 2, 3)
    /\ LOGS[1] # LOGS[2]
    /\ IsLogsResponse
    /\ resp.at = 3
    /\ Snapshot = LOGS

\* ---------------------------------------------------------------- C12
\* C12: at most one thread is inside a critical section of LOGS_LOCK, and
\* it is the thread that holds the lock; the store is written only by a
\* step of the listener that holds the lock; and the store is read for a
\* /logs body only by a step of the web thread while it holds the lock, so
\* with no listener between its append and its trim and the store within
\* the cap.
C12_AllAccessUnderLock ==
    /\ [](/\ Cardinality(InCritical) <= 1
          /\ \A t \in InCritical : LOGS_LOCK = t
          /\ LOGS_LOCK # 0 => LOGS_LOCK \in InCritical)
    /\ [][ /\ LOGS' # LOGS =>
                 \E p \in Ports :
                    /\ LOGS_LOCK = p
                    /\ lpc[p] \in {"append", "trim"}
                    /\ lpc'[p] # lpc[p]
                    /\ \A q \in Ports \ {p} : lpc'[q] = lpc[q]
                    /\ wpc' = wpc
           /\ (resp' # resp /\ resp'.path = <<"/", "logs">>) =>
                 /\ LOGS_LOCK = WEB_PORT
                 /\ wpc = "write"
                 /\ resp'.body = JsonDumps(LOGS)
                 /\ NoTrimPending
                 /\ Len(LOGS) <= MAX_LOGS
                 /\ \A p \in Ports : lpc'[p] = lpc[p]
       ]_vars

\* The web thread is inside its critical section, about to write the one
\* stored record, while both listeners wait for the lock, each with a
\* record built.
C12_Witness ==
    /\ wpc = "write"
    /\ LOGS_LOCK = WEB_PORT
    /\ \A p \in Ports : lpc[p] = "built"
    /\ Len(LOGS) = 1

\* ---------------------------------------------------------------- C13
\* C13: while the web thread serialises the store and writes the /logs
\* body it does not hold the lock, so a listener with a record built is
\* never kept from its append by a response in progress.
C13_WriteOutsideLock ==
    (wpc = "write" /\ \E p \in Ports : lpc[p] = "built") => LOGS_LOCK # WEB_PORT

\* ---------------------------------------------------------------- C14
\* C14: every appended record carries its ingestion time and the sender's
\* address, and two records appended by listeners on different ports
\* differ (each carries the port of its listener), in the history and so
\* in the store.
C14_PortsDistinguishable ==
    /\ \A i \in 1..Len(appended) :
          appended[i].timestamp # <<>> /\ appended[i].source # <<>>
    /\ \A i, j \in 1..Len(appended) :
          (Len(origin) = Len(appended) /\ origin[i].port # origin[j].port) =>
             appended[i] # appended[j]

\* ---------------------------------------------------------------- C15
\* The listeners whose received datagram has yet to be appended or dropped.
Pending == {p \in Ports : lpc[p] \in {"handle", "built", "append"}}

\* C15: no datagram is appended twice (the appends so far and the
\* datagrams still being handled are together no more than the datagrams
\* received); an append is made by the listener that received the datagram
\* and adds, at the end, the one record built from that datagram; no step
\* changes a record that stays in the store; and a record leaves only as
\* the oldest one, removed by the trim of the listener whose append took
\* the store above MAX_LOGS.
C15_Lifecycle ==
    /\ [](Len(appended) + Cardinality(Pending) <= nDatagrams)
    /\ [][ /\ appended' # appended =>
                 \E p \in Ports :
                    /\ lpc[p] = "append" /\ lpc'[p] = "trim"
                    /\ appended' = Append(appended, entry[p])
                    /\ LOGS' = Append(LOGS, entry[p])
                    /\ entry[p].message =
                          DecodeMessage(BytesStrip(request[p].payload))
                    /\ entry[p].source = request[p].addr
           /\ (LOGS' # LOGS /\ appended' = appended) =>
                 /\ LOGS' = Tail(LOGS)
                 /\ Len(LOGS) = MAX_LOGS + 1
                 /\ \E p \in Ports :
                       /\ lpc[p] = "trim" /\ lpc'[p] = "idle"
                       /\ LOGS[Len(LOGS)] = entry[p]
       ]_vars

\* The first of three records was built, served by /logs together with the
\* second while both were in the store, and evicted by the third append;
\* all three datagrams have been handled.
C15_Witness ==
    /\ nDatagrams = 3
    /\ Len(appended) = 3
    /\ Pending = {}
    /\ NoTrimPending
    /\ LOGS = SubSeq(appended, 2, 3)
    /\ IsLogsResponse
    /\ resp.at = 2
    /\ Snapshot = SubSeq(appended, 1, 2)

\* ---------------------------------------------------------------- C16
\* The bytes Python's bytes.strip() removes: space, tab, LF, VT, FF, CR.
AsciiWhitespace == {32} \cup (9..13)

\* The payload is empty or made of ASCII whitespace only.
Blank(payload) == \A k \in 1..Len(payload) : payload[k] \in AsciiWhitespace

\* C16: every record of the store, of the append history and of a /logs
\* body has a non-empty message; and handle, given a payload that is empty
\* or made of ASCII whitespace only, prints the could-not-decode line and
\* returns with the store, the history and the lock as they were.
C16_NoEmptyMessage ==
    /\ [](/\ \A i \in 1..Len(LOGS) : LOGS[i].message # <<>>
          /\ \A i \in 1..Len(appended) : appended[i].message # <<>>
          /\ IsLogsResponse =>
                \A i \in 1..Len(Snapshot) : Snapshot[i].message # <<>>)
    /\ [][\A p \in Ports :
            (lpc[p] = "handle" /\ lpc'[p] # "handle" /\ Blank(request[p].payload)) =>
               /\ lpc'[p] = "idle"
               /\ <<"no_decode", 0>> \in printed'
               /\ UNCHANGED <<LOGS, appended, LOGS_LOCK, entry>>
       ]_vars

\* Of three datagrams one was stored and one dropped with the diagnostic
\* (no exception was caught), and the listener on 1514 has just been given
\* the whitespace-only payload of a space and a line feed.
C16_Witness ==
    /\ nDatagrams = 3
    /\ Len(appended) = 1
    /\ LOGS = appended
    /\ <<"no_decode", 0>> \in printed
    /\ <<"handler_error", 0>> \notin printed
    /\ lpc[514] = "idle"
    /\ lpc[1514] = "handle"
    /\ request[1514].payload = <<32, 10>>

\* ---------------------------------------------------------------- C17
\* C17: the store is in non-decreasing timestamp order (and so is every
\* /logs body): no record stamped later stands before one stamped earlier.
C17_TimestampOrder ==
    /\ \A i, j \in 1..Len(LOGS) :
          i < j => LOGS[i].timestamp[1] <= LOGS[j].timestamp[1]
    /\ IsLogsResponse =>
          \A i, j \in 1..Len(Snapshot) :
             i < j => Snapshot[i].timestamp[1] <= Snapshot[j].timestamp[1]

\* ---------------------------------------------------------------- C18
\* C18: with records told apart by their place in the append history, the
\* history only grows at its end; the store is always the stretch of it
\* from StoreFrom to its end, and StoreFrom never goes back; a /logs body
\* is the store as it stood at the write, i.e. the stretch from
\* SnapshotFrom to resp.at, which starts and ends no later than the
\* store's; and of two successive /logs bodies the later one starts and
\* ends no earlier than the first. So two responses agree on the order of
\* the records they share, a record of the first that the second lacks
\* precedes every record of the second, and an evicted record never
\* comes back.
C18_ContiguousWindows ==
    /\ [](/\ LOGS = SubSeq(appended, StoreFrom, Len(appended))
          /\ IsLogsResponse =>
                /\ Snapshot = SubSeq(appended, SnapshotFrom, resp.at)
                /\ SnapshotFrom >= 1
                /\ SnapshotFrom <= StoreFrom
                /\ resp.at <= Len(appended))
    /\ [][ /\ Len(appended') >= Len(appended)
           /\ appended = SubSeq(appended', 1, Len(appended))
           /\ StoreFrom' >= StoreFrom
           /\ (resp' # resp /\ resp'.path = <<"/", "logs">>) =>
                 /\ JsonLoads(resp'.body) = LOGS
                 /\ resp'.at = Len(appended)
                 /\ IsLogsResponse =>
                       /\ SnapshotFrom' >= SnapshotFrom
                       /\ resp'.at >= resp.at
       ]_vars

\* A /logs response served the first two of three different records; the
\* third append has since evicted the first, and the web thread is about
\* to write the next /logs body, which holds the second and the third.
C18_Witness ==
    /\ Len(appended) = 3
    /\ IsLogsResponse
    /\ Snapshot = SubSeq(appended, 1, 2)
    /\ \A i, j \in 1..3 : i # j => appended[i] # appended[j]
    /\ LOGS = SubSeq(appended, 2, 3)
    /\ wpc = "write"
    /\ LOGS_LOCK = WEB_PORT

Caught(p) == lpc[p] = "idle" /\ <<"handler_error", 0>> \in printed

C20_LivesAsLongAsWeb == mainpc = "exited" => wpc = "ended"

\* Ctrl+C has ended the main thread.
Interrupted == <<"shutdown", 0>> \in printed \/ <<"traceback", 0>> \in printed

\* C20 (amended): the web thread ends only by the failure that
\* run_web_server catches and reports; once it has ended the main
\* thread's join can return, and the process exits; the process is over
\* only then or after Ctrl+C; once it is over no thread takes another
\* step; and the step that ends a listener thread leaves the main thread
\* and the web thread where they were, so that the process and the web
\* server run on with every listener ended.
C20_ProcessAndWebThread ==
    /\ [](/\ wpc = "ended" => <<"web_failed", 0>> \in printed
          /\ (wpc = "ended" /\ mainpc = "join") => ENABLED MainJoin
          /\ mainpc = "exited" => (wpc = "ended" \/ Interrupted)
          /\ mainpc = "exited" => ~ENABLED Next)
    /\ [][ /\ (mainpc # "exited" /\ mainpc' = "exited") =>
                 \/ wpc = "ended" /\ printed' = printed
                 \/ Interrupted'
           /\ (\E p \in Ports : lpc[p] # "ended" /\ lpc'[p] = "ended") =>
                 mainpc' = mainpc /\ wpc' = wpc
       ]_vars

\* The listener on 514 never bound and the one on 1514 was handling a
\* datagram, its record built, when the web server failed to start: join
\* returned and the process is over without Ctrl+C, the record never
\* appended.
C20_Witness ==
    /\ mainpc = "exited"
    /\ wpc = "ended"
    /\ ~Interrupted
    /\ <<"web_failed", 0>> \in printed
    /\ lpc[514] = "ended"
    /\ lpc[1514] = "built"
    /\ LOGS = <<>>
====
